---- MODULE Spec2Model ----
(***************************************************************************)
(* Block propagation / mining simulator (sim.py): the driver's tick loop,  *)
(* the per-link delay queues, the miners' mining / fork-choice state       *)
(* machine and the orphan reconciliation.                                  *)
(***************************************************************************)
EXTENDS Integers, Sequences, FiniteSets, TLC

\* ---------------------------------------------------------------- bounds
MaxTick == 8        \* the model follows the tick loop up to this tick
MaxBlocks == 4      \* at most this many blocks are mined in a run
MaxPeriods == 1     \* block_periods is drawn from 0..MaxPeriods
MaxMineTick == 1    \* in the whole-run specification blocks are found up to this tick

\* ------------------------------------------------------ program constants
SecondsPerPeriod == 600
LongDelay == 5

\* ------------------------------------------------------------- topology
MinerSeq == <<"A", "B", "C">>
Miners == {"A", "B", "C"}
None == 0                      \* an absent block reference (Optional)
NoMiner == "None"              \* f"{miner}" of an absent miner
ZeroHash == <<>>               \* the "0" * 64 parent hash of genesis
GenesisId == 1

connections ==
  [m \in Miners |->
     CASE m = "A" -> << [receiver |-> "B", delay |-> 0],
                        [receiver |-> "C", delay |-> LongDelay] >>
       [] m = "B" -> << [receiver |-> "A", delay |-> 0],
                        [receiver |-> "C", delay |-> 0] >>
       [] m = "C" -> << [receiver |-> "A", delay |-> 0],
                        [receiver |-> "B", delay |-> 0] >>]

VARIABLES
  block_periods,      \* the argument of main
  t,                  \* the loop variable of the tick loop
  pc,                 \* position of main: "send", "mine", "report", "done", "trap"
  idx,                \* index of the miner the current inner loop is at
  blocks,             \* every Block object created so far, by reference (index)
  current_block,      \* Miner.current_block
  block_candidates,   \* Miner.block_candidates
  known_blocks,       \* Miner.known_blocks: hash -> block
  rejected_blocks,    \* Miner.rejected_blocks, in insertion order
  blocks_mined,       \* Miner.blocks_mined
  blocks_to_send,     \* Connection.blocks_to_send, per sender and connection index
  handed,             \* log of Connection.send_block calls, per sender and connection index
  stale_rate          \* the stale rates the report has computed: <<stale, mined>>

vars == <<block_periods, t, pc, idx, blocks, current_block, block_candidates,
          known_blocks, rejected_blocks, blocks_mined, blocks_to_send, handed,
          stale_rate>>

\* -------------------------------------------------------------- helpers
Min(S) == CHOOSE x \in S : \A y \in S : x <= y
Max(S) == CHOOSE x \in S : \A y \in S : x >= y
Range(s) == {s[i] : i \in DOMAIN s}
RemoveAt(s, i) == [j \in 1..(Len(s) - 1) |-> IF j < i THEN s[j] ELSE s[j + 1]]
Put(d, k, v) == [x \in (DOMAIN d) \cup {k} |-> IF x = k THEN v ELSE d[x]]

\* ---------------------------------------------------------------- Block
\* sha256 of f"{height}{miner}{parent_hash}": the digest stands for its
\* preimage; the creation time is not part of it.
\* the digest of a preimage that leaves the miner out
Hash_nominer(height, miner, parent_hash) == <<height, parent_hash>>

Hash(height, miner, parent_hash) == <<height, miner, parent_hash>>

Block(height, time, parent, miner) ==
  [height |-> height, time |-> time, miner |-> miner, parent |-> parent,
   hash |-> Hash(height, miner,
                 IF parent = None THEN ZeroHash ELSE blocks[parent].hash)]

ParentHash(b) == blocks[blocks[b].parent].hash

\* ----------------------------------------------------------- Connection
\* queue_block with the countdown starting one above the delay
queue_block_late(q, block, delay) ==
  Append(q, [block |-> block, tts |-> delay + 1])

queue_block(q, block, delay) == Append(q, [block |-> block, tts |-> delay])

RECURSIVE TickFrom(_, _)
TickFrom(q, i) ==
  IF i > Len(q) THEN [sent |-> <<>>, remaining |-> <<>>]
  ELSE LET rest == TickFrom(q, i + 1) IN
       IF q[i].tts = 0
       THEN [sent |-> <<q[i].block>> \o rest.sent, remaining |-> rest.remaining]
       ELSE [sent |-> rest.sent,
             remaining |-> <<[block |-> q[i].block, tts |-> q[i].tts - 1]>>
                           \o rest.remaining]

\* tick that counts down before it tests for zero
tick_early(q) ==
  LET Due(e) == e.tts <= 1
      Later(e) == e.tts > 1
      due == SelectSeq(q, Due)
      later == SelectSeq(q, Later)
  IN [sent |-> [i \in 1..Len(due) |-> due[i].block],
      remaining |-> [i \in 1..Len(later) |->
                       [block |-> later[i].block, tts |-> later[i].tts - 1]]]

\* tick keeping the entries in reverse order (remaining.insert(0, entry))
tick_reversed(q) ==
  LET r == TickFrom(q, 1) IN
    [sent |-> r.sent,
     remaining |-> [i \in 1..Len(r.remaining) |->
                      r.remaining[Len(r.remaining) + 1 - i]]]

\* Connection.tick: the blocks handed to send_block, in order, and the queue
\* that is kept.
tick(q) == TickFrom(q, 1)

\* ---------------------------------------------------------------- Miner
\* A miner's mutable fields as one record.
MinerState(m) ==
  [known |-> known_blocks[m], rejected |-> rejected_blocks[m],
   cands |-> block_candidates[m], cur |-> current_block[m]]

is_mine(m, b) == blocks[b].miner = m

\* refresh_rejects without the recursive call: one block is moved at most
refresh_rejects_once(known, rejected) ==
  LET hits == {i \in 1..Len(rejected) : ParentHash(rejected[i]) \in DOMAIN known} IN
  IF hits = {} THEN [known |-> known, rejected |-> rejected]
  ELSE LET i == Min(hits)
           moved == rejected[i]
       IN [known |-> Put(known, blocks[moved].hash, moved),
           rejected |-> RemoveAt(rejected, i)]

\* refresh_rejects that moves nothing
refresh_rejects_noop(known, rejected) ==
  [known |-> known, rejected |-> rejected]

RECURSIVE refresh_rejects(_, _)
refresh_rejects(known, rejected) ==
  LET hits == {i \in 1..Len(rejected) : ParentHash(rejected[i]) \in DOMAIN known} IN
  IF hits = {} THEN [known |-> known, rejected |-> rejected]
  ELSE LET i == Min(hits)
           moved == rejected[i]
       IN refresh_rejects(Put(known, blocks[moved].hash, moved),
                          RemoveAt(rejected, i))

\* rejected_blocks[block.hash] = block, the dict keeping insertion order
StoreReject(rejected, b) ==
  IF \E i \in 1..Len(rejected) : blocks[rejected[i]].hash = blocks[b].hash
  THEN [i \in 1..Len(rejected) |->
          IF blocks[rejected[i]].hash = blocks[b].hash THEN b ELSE rejected[i]]
  ELSE Append(rejected, b)

\* receive_block without the "seen it before" return
receive_block_nodedup(st, b) ==
  IF ParentHash(b) \notin DOMAIN st.known
  THEN [st EXCEPT !.rejected = StoreReject(st.rejected, b)]
  ELSE LET rr == refresh_rejects(Put(st.known, blocks[b].hash, b), st.rejected) IN
       [st EXCEPT !.known = rr.known,
                  !.rejected = rr.rejected,
                  !.cands = IF blocks[b].height > blocks[st.cur].height
                            THEN Append(st.cands, b) ELSE st.cands]

\* receive_block without the rejection of blocks whose parent is unknown
receive_block_noparent(st, b) ==
  IF blocks[b].hash \in DOMAIN st.known THEN st
  ELSE LET rr == refresh_rejects(Put(st.known, blocks[b].hash, b), st.rejected) IN
       [st EXCEPT !.known = rr.known,
                  !.rejected = rr.rejected,
                  !.cands = IF blocks[b].height > blocks[st.cur].height
                            THEN Append(st.cands, b) ELSE st.cands]

\* receive_block with the parent test inverted
receive_block_inverted(st, b) ==
  IF blocks[b].hash \in DOMAIN st.known THEN st
  ELSE IF ParentHash(b) \in DOMAIN st.known
  THEN [st EXCEPT !.rejected = StoreReject(st.rejected, b)]
  ELSE LET rr == refresh_rejects(Put(st.known, blocks[b].hash, b), st.rejected) IN
       [st EXCEPT !.known = rr.known,
                  !.rejected = rr.rejected,
                  !.cands = IF blocks[b].height > blocks[st.cur].height
                            THEN Append(st.cands, b) ELSE st.cands]

\* receive_block taking blocks of the tip's own height as candidates too
receive_block_ge(st, b) ==
  IF blocks[b].hash \in DOMAIN st.known THEN st
  ELSE IF ParentHash(b) \notin DOMAIN st.known
  THEN [st EXCEPT !.rejected = StoreReject(st.rejected, b)]
  ELSE LET rr == refresh_rejects(Put(st.known, blocks[b].hash, b), st.rejected) IN
       [st EXCEPT !.known = rr.known,
                  !.rejected = rr.rejected,
                  !.cands = IF blocks[b].height >= blocks[st.cur].height
                            THEN Append(st.cands, b) ELSE st.cands]

receive_block(st, b) ==
  IF blocks[b].hash \in DOMAIN st.known THEN st
  ELSE IF ParentHash(b) \notin DOMAIN st.known
  THEN [st EXCEPT !.rejected = StoreReject(st.rejected, b)]
  ELSE LET rr == refresh_rejects(Put(st.known, blocks[b].hash, b), st.rejected) IN
       [st EXCEPT !.known = rr.known,
                  !.rejected = rr.rejected,
                  !.cands = IF blocks[b].height > blocks[st.cur].height
                            THEN Append(st.cands, b) ELSE st.cands]

\* candidates of maximum height, in list order
candidates_max_height(cands) ==
  LET max_height == Max({blocks[cands[i]].height : i \in 1..Len(cands)})
      AtMax(c) == blocks[c].height = max_height
  IN SelectSeq(cands, AtMax)

\* the values random.choice can be given a meaning for
Choices(m, cands) ==
  IF Len(cands) = 0 THEN {1}
  ELSE LET cmh == candidates_max_height(cands) IN
       IF \E i \in 1..Len(cmh) : is_mine(m, cmh[i]) THEN {1} ELSE 1..Len(cmh)

\* evaluate_candidates without the preference for the miner's own block
evaluate_candidates_random(m, cands, r) ==
  candidates_max_height(cands)[r]

\* evaluate_candidates looking for the miner's own block before the
\* restriction to the maximum height
evaluate_candidates_ownfirst(m, cands, r) ==
  LET cmh == candidates_max_height(cands)
      mine == {i \in 1..Len(cands) : is_mine(m, cands[i])}
  IN IF mine # {} THEN cands[Min(mine)] ELSE cmh[r]

\* evaluate_candidates: the new current_block; r is the index random.choice picks
evaluate_candidates(m, cands, r) ==
  LET cmh == candidates_max_height(cands)
      mine == {i \in 1..Len(cmh) : is_mine(m, cmh[i])}
  IN IF mine # {} THEN cmh[Min(mine)] ELSE cmh[r]


\* the reference of the Block object that Miner.mine creates next
found_block_id == Len(blocks) + 1

RECURSIVE blocks_in_chain_all(_, _)
\* the chain count without the test of the block's miner
blocks_in_chain_all(m, b) ==
  IF blocks[b].parent = None THEN 0
  ELSE 1 + blocks_in_chain_all(m, blocks[b].parent)

\* main's report: blocks of miner m on the chain from block b back to genesis
RECURSIVE blocks_in_chain(_, _)
blocks_in_chain(m, b) ==
  IF blocks[b].parent = None THEN 0
  ELSE (IF blocks[b].miner = m THEN 1 ELSE 0) + blocks_in_chain(m, blocks[b].parent)

seconds_to_simulate == block_periods * SecondsPerPeriod

\* ----------------------------------------------------------------- Init
Init ==
  /\ block_periods \in 0..MaxPeriods
  /\ t = 1
  /\ pc = IF 1 < block_periods * SecondsPerPeriod THEN "send" ELSE "report"
  /\ idx = 1
  /\ blocks = << [height |-> 0, time |-> 0, miner |-> NoMiner, parent |-> None,
                  hash |-> Hash(0, NoMiner, ZeroHash)] >>
  /\ current_block = [m \in Miners |-> GenesisId]
  /\ block_candidates = [m \in Miners |-> <<>>]
  /\ known_blocks = [m \in Miners |->
                       [h \in {Hash(0, NoMiner, ZeroHash)} |-> GenesisId]]
  /\ rejected_blocks = [m \in Miners |-> <<>>]
  /\ blocks_mined = [m \in Miners |-> 0]
  /\ blocks_to_send = [m \in Miners |-> [k \in DOMAIN connections[m] |-> <<>>]]
  /\ handed = [m \in Miners |-> [k \in DOMAIN connections[m] |-> <<>>]]
  /\ stale_rate = [m \in Miners |-> <<>>]

\* -------------------------------------------------------- send_messages
RECURSIVE Deliver(_, _, _)
\* Connection.send_block for each block of bs, in order
Deliver(ms, r, bs) ==
  IF bs = <<>> THEN ms
  ELSE Deliver([ms EXCEPT ![r] = receive_block(ms[r], Head(bs))], r, Tail(bs))

RECURSIVE SendFrom(_, _, _)
\* Miner.send_messages: the connections of m from the k-th on, in list order
SendFrom(ms, m, k) ==
  IF k > Len(connections[m]) THEN ms
  ELSE SendFrom(Deliver(ms, connections[m][k].receiver,
                        tick(blocks_to_send[m][k]).sent), m, k + 1)

\* one iteration of main's announcement loop: miner.send_messages()
SendStep(m) ==
  /\ pc = "send" /\ MinerSeq[idx] = m
  /\ LET ms == SendFrom([x \in Miners |-> MinerState(x)], m, 1) IN
       /\ known_blocks' = [x \in Miners |-> ms[x].known]
       /\ rejected_blocks' = [x \in Miners |-> ms[x].rejected]
       /\ block_candidates' = [x \in Miners |-> ms[x].cands]
       /\ current_block' = [x \in Miners |-> ms[x].cur]
  /\ blocks_to_send' = [blocks_to_send EXCEPT ![m] =
         [k \in DOMAIN connections[m] |-> tick(blocks_to_send[m][k]).remaining]]
  /\ handed' = [handed EXCEPT ![m] =
         [k \in DOMAIN connections[m] |->
            handed[m][k] \o tick(blocks_to_send[m][k]).sent]]
  /\ IF idx < Len(MinerSeq)
     THEN idx' = idx + 1 /\ pc' = "send"
     ELSE idx' = 1 /\ pc' = "mine"
  /\ UNCHANGED <<block_periods, t, blocks, blocks_mined, stale_rate>>

SendMessages(m) == t <= MaxTick /\ SendStep(m)

\* ----------------------------------------------------------------- mine
\* announce queueing the block with no countdown on every connection
announce_nodelay(m, block) ==
  [k \in DOMAIN connections[m] |->
     queue_block(blocks_to_send[m][k], block, 0)]

\* announce queueing the miner's previous tip instead of the found block
announce_tip(m, block) ==
  [k \in DOMAIN connections[m] |->
     queue_block(blocks_to_send[m][k], current_block[m], connections[m][k].delay)]

\* Miner.announce: the queues of m's connections after the block is queued
announce(m, block) ==
  [k \in DOMAIN connections[m] |->
     queue_block(blocks_to_send[m][k], block, connections[m][k].delay)]

\* one iteration of main's mining loop: miner.mine(t); may_find bounds the
\* ticks and the number of blocks in which random.random() falls below the
\* miner's probability
MineStep(m, may_find) ==
  /\ pc = "mine" /\ MinerSeq[idx] = m
  /\ \E r \in Choices(m, block_candidates[m]) :
     \E found \in BOOLEAN :
       LET tip == IF Len(block_candidates[m]) > 0
                  THEN evaluate_candidates(m, block_candidates[m], r)
                  ELSE current_block[m]
           new == Block(blocks[tip].height + 1, t, tip, m)
       IN /\ found => may_find
          /\ current_block' = [current_block EXCEPT ![m] = tip]
          /\ IF found
             THEN /\ blocks' = Append(blocks, new)
                  /\ known_blocks' = [known_blocks EXCEPT ![m] =
                                        Put(@, new.hash, found_block_id)]
                  /\ block_candidates' = [block_candidates EXCEPT ![m] =
                                            <<found_block_id>>]
                  /\ blocks_mined' = [blocks_mined EXCEPT ![m] = @ + 1]
                  /\ blocks_to_send' = [blocks_to_send EXCEPT ![m] =
                                          announce(m, found_block_id)]
             ELSE /\ block_candidates' = [block_candidates EXCEPT ![m] = <<>>]
                  /\ UNCHANGED <<blocks, known_blocks, blocks_mined, blocks_to_send>>
  /\ IF idx < Len(MinerSeq)
     THEN idx' = idx + 1 /\ pc' = "mine" /\ t' = t
     ELSE /\ idx' = 1 /\ t' = t + 1
          /\ pc' = IF t + 1 < seconds_to_simulate THEN "send" ELSE "report"
  /\ UNCHANGED <<block_periods, rejected_blocks, handed, stale_rate>>

Mine(m) == t <= MaxTick /\ MineStep(m, Len(blocks) - 1 < MaxBlocks)

\* --------------------------------------------------------------- report
Report(m) ==
  /\ pc = "report" /\ MinerSeq[idx] = m
  /\ IF blocks_mined[m] = 0
     THEN pc' = "trap" /\ UNCHANGED <<idx, stale_rate>>     \* ZeroDivisionError
     ELSE /\ stale_rate' = [stale_rate EXCEPT ![m] =
                 << blocks_mined[m] - blocks_in_chain(m, current_block[m]),
                    blocks_mined[m] >>]
          /\ IF idx < Len(MinerSeq)
             THEN idx' = idx + 1 /\ pc' = "report"
             ELSE idx' = idx /\ pc' = "done"
  /\ UNCHANGED <<block_periods, t, blocks, current_block, block_candidates,
                 known_blocks, rejected_blocks, blocks_mined, blocks_to_send,
                 handed>>

Next ==
  \/ \E m \in Miners : SendMessages(m)
  \/ \E m \in Miners : Mine(m)
  \/ \E m \in Miners : Report(m)

Spec == Init /\ [][Next]_vars

\* The whole run: the tick loop is followed to its end, and blocks are found
\* in the first MaxMineTick ticks only.
RunSend(m) == SendStep(m)
RunMine(m) == MineStep(m, Len(blocks) - 1 < MaxBlocks /\ t <= MaxMineTick)

NextRun ==
  \/ \E m \in Miners : RunSend(m)
  \/ \E m \in Miners : RunMine(m)
  \/ \E m \in Miners : Report(m)

SpecRun == Init /\ [][NextRun]_vars


\* ======================================================================
\* Properties
\* ======================================================================
Index(m) == CHOOSE i \in DOMAIN MinerSeq : MinerSeq[i] = m
Mined == 2..Len(blocks)                      \* every block but genesis
Knows(m, b) == blocks[b].hash \in DOMAIN known_blocks[m]
Rejects(m, b) == b \in Range(rejected_blocks[m])
Delay(s, r) == LET k == CHOOSE k \in DOMAIN connections[s] :
                           connections[s][k].receiver = r
               IN connections[s][k].delay
Arrival(m, b) == blocks[b].time + Delay(blocks[b].miner, m) + 1
RECURSIVE KnownAt(_, _)
\* the tick in which block b enters the known_blocks of miner m
KnownAt(m, b) ==
  IF b = GenesisId THEN 0
  ELSE IF blocks[b].miner = m THEN blocks[b].time
  ELSE Max({Arrival(m, b), KnownAt(m, blocks[b].parent)})
\* miner m received block b in a tick before the one its parent became known in
WasOrphan(m, b) ==
  blocks[b].miner # m /\ KnownAt(m, blocks[b].parent) > Arrival(m, b)

\* C1: a block that a receive_block call inserts into known_blocks, directly
\* or by reconciliation, and whose height exceeds the miner's tip height is
\* in the miner's candidate list when the call returns.
C1_ReconciledBecomeCandidates ==
  [][pc = "send" =>
       \A m \in Miners : \A b \in Mined :
         (/\ ~Knows(m, b)
          /\ blocks[b].hash \in DOMAIN known_blocks'[m]
          /\ blocks[b].height > blocks[current_block[m]].height)
         => b \in Range(block_candidates'[m])]_vars

\* C2: between operations no rejected block has its parent in known_blocks,
\* so no rejected block has all its ancestors known.
C2_NoRejectWithKnownParent ==
  \A m \in Miners : \A i \in 1..Len(rejected_blocks[m]) :
    ParentHash(rejected_blocks[m][i]) \notin DOMAIN known_blocks[m]

\* a block that was stored as an orphan has been reconciled into known_blocks
C2_Witness ==
  \E m \in Miners : \E b \in Mined :
    /\ WasOrphan(m, b) /\ Knows(m, b) /\ rejected_blocks[m] = <<>>
    /\ \E c \in Mined : blocks[c].parent = b /\ WasOrphan(m, c) /\ Knows(m, c)

\* the send_messages call of miner s in tick n has completed
SentInTick(s, n) ==
  \/ t > n
  \/ t = n /\ (pc = "mine" \/ (pc = "send" /\ idx > Index(s)))

\* C3: a block is never received in the tick it was mined in; on a delay-0
\* connection it is handed over in the send phase of the next tick; when the
\* only block of the run was mined at tick 5, a delay-0 receiver knows it, as
\* a candidate, from its sender's send_messages of tick 6 on.
C3_ZeroDelayNextTick ==
  /\ \A m \in Miners : \A b \in Mined :
       (blocks[b].miner # m /\ (Knows(m, b) \/ Rejects(m, b)))
         => blocks[b].time < t
  /\ \A s \in Miners : \A k \in DOMAIN connections[s] : \A b \in Mined :
       (connections[s][k].delay = 0 /\ blocks[b].miner = s) =>
         LET r == connections[s][k].receiver IN
           /\ SentInTick(s, blocks[b].time + 1)
                => (b \in Range(handed[s][k]) /\ (Knows(r, b) \/ Rejects(r, b)))
           /\ ~SentInTick(s, blocks[b].time + 1)
                => (b \notin Range(handed[s][k]) /\ ~Knows(r, b) /\ ~Rejects(r, b))
  /\ \A s \in Miners : \A k \in DOMAIN connections[s] :
       (/\ connections[s][k].delay = 0
        /\ Len(blocks) = 2 /\ blocks[2].miner = s /\ blocks[2].time = 5) =>
         LET r == connections[s][k].receiver IN
           /\ t = 5 => ~Knows(r, 2)
           /\ (t = 6 /\ SentInTick(s, 6)) => Knows(r, 2)
           /\ (t = 6 /\ SentInTick(s, 6)
                 /\ (pc = "send" \/ idx <= Index(r))) =>
                2 \in Range(block_candidates[r])

\* the scenario: one block, mined at tick 5, delivered at tick 6
C3_Witness ==
  /\ Len(blocks) = 2 /\ blocks[2].miner = "A" /\ blocks[2].time = 5
  /\ t = 6 /\ pc = "mine" /\ idx = 1
  /\ Knows("B", 2) /\ block_candidates["B"] = <<2>>

\* C4: a second receive_block of the same block right after the first one
\* changes none of known_blocks, rejected_blocks, candidates and tip.
C4_IdempotentDelivery ==
  \A m \in Miners : \A b \in Mined :
    LET first == receive_block(MinerState(m), b) IN
      receive_block(first, b) = first

\* a first delivery that accepts its block and one that stores an orphan
C4_Witness ==
  /\ \E m \in Miners : \E b \in Mined :
       LET first == receive_block(MinerState(m), b) IN
         /\ first.known # known_blocks[m]
         /\ first.cands # block_candidates[m]
  /\ \E m \in Miners : \E b \in Mined :
       LET first == receive_block(MinerState(m), b) IN
         /\ first.rejected # rejected_blocks[m]
         /\ first.known = known_blocks[m]

\* the orderings of a candidate list
Perms(s) ==
  {p \in [1..Len(s) -> Range(s)] : \A i, j \in 1..Len(s) : p[i] = p[j] => i = j}

MaxHeight(cands) == Max({blocks[cands[i]].height : i \in 1..Len(cands)})
OwnAtMax(m, cands) ==
  \E i \in 1..Len(cands) :
    is_mine(m, cands[i]) /\ blocks[cands[i]].height = MaxHeight(cands)

\* C5: with a self-mined candidate of maximum height, evaluate_candidates
\* yields a self-mined candidate of maximum height for every random choice
\* and every order of the list; otherwise it yields the randomly chosen one.
C5_SelfPreference ==
  \A m \in Miners :
    block_candidates[m] # <<>> =>
      \A cands \in Perms(block_candidates[m]) :
        LET cmh == candidates_max_height(cands) IN
          \A r \in 1..Len(cmh) :
            LET tip == evaluate_candidates(m, cands, r) IN
              IF OwnAtMax(m, cands)
              THEN is_mine(m, tip) /\ blocks[tip].height = MaxHeight(cands)
              ELSE tip = cmh[r]

\* a miner holds its own block and a rival of the same, maximum height
C5_Witness ==
  \E m \in Miners :
    /\ Len(block_candidates[m]) >= 2
    /\ OwnAtMax(m, block_candidates[m])
    /\ Len(candidates_max_height(block_candidates[m])) >= 2

RECURSIVE AncestorsKnown(_, _)
AncestorsKnown(m, b) ==
  /\ Knows(m, b)
  /\ blocks[b].parent # None => AncestorsKnown(m, blocks[b].parent)

\* C6: known_blocks holds the tip and all its ancestors, and the parent of
\* every known block other than genesis.
C6_KnownClosedUnderParent ==
  \A m \in Miners :
    /\ AncestorsKnown(m, current_block[m])
    /\ known_blocks[m][blocks[current_block[m]].hash] = current_block[m]
    /\ \A h \in DOMAIN known_blocks[m] :
         LET b == known_blocks[m][h] IN
           blocks[b].parent # None => ParentHash(b) \in DOMAIN known_blocks[m]

\* a miner's tip is a received block on top of another block
C6_Witness ==
  \E m \in Miners :
    /\ blocks[current_block[m]].height >= 2
    /\ blocks[current_block[m]].miner # m

PendingBlocks(q) == [i \in 1..Len(q) |-> q[i].block]
\* the blocks miner s announced, in the order it announced them
Announced(s) == LET By(b) == blocks[b].miner = s
                IN SelectSeq([i \in 1..Len(blocks) |-> i], By)

C8_MonotonicGrowth ==
  [][\A m \in Miners :
       /\ DOMAIN known_blocks[m] \subseteq DOMAIN known_blocks'[m]
       /\ Cardinality(DOMAIN known_blocks'[m]) >= Cardinality(DOMAIN known_blocks[m])
       /\ Len(rejected_blocks'[m]) > Len(rejected_blocks[m]) =>
            \E s \in Miners : \E k \in DOMAIN connections[s] :
              /\ connections[s][k].receiver = m
              /\ Len(handed'[s][k]) = Len(handed[s][k]) + 1
              /\ LET b == handed'[s][k][Len(handed'[s][k])] IN
                   /\ ~Knows(m, b) /\ ~Rejects(m, b)
                   /\ ParentHash(b) \notin DOMAIN known_blocks[m]
                   /\ rejected_blocks'[m] = Append(rejected_blocks[m], b)]_vars

\* a miner holds an orphan and has learnt of blocks of others
C8_Witness ==
  \E m \in Miners :
    /\ rejected_blocks[m] # <<>>
    /\ \E b \in Mined : Knows(m, b) /\ blocks[b].miner # m

\* C9: a miner's blocks on the chain of its tip are at most the blocks it
\* mined: the stale count is never negative.
C9_StaleNonNegative ==
  \A m \in Miners :
    blocks_mined[m] - blocks_in_chain(m, current_block[m]) >= 0

\* a miner with a block on its chain and a stale block
C9_Witness ==
  \E m \in Miners :
    /\ blocks_in_chain(m, current_block[m]) >= 1
    /\ blocks_mined[m] > blocks_in_chain(m, current_block[m])

\* C10: the stale rate of a miner that mined nothing is computed without a
\* division-by-zero trap.
C10_StaleRateNeverTraps ==
  pc # "trap"


Finished == pc \in {"report", "done", "trap"}

\* C11: for every number of periods the tick loop ends after exactly
\* block_periods * 600 ticks (t - 1 ticks have been executed when it ends).
C11_TicksArePeriodsTimes600 ==
  Finished => t - 1 = block_periods * SecondsPerPeriod


\* C13: every candidate of a miner is higher than the miner's tip and is in
\* the miner's known_blocks.
C13_CandidatesAboveTip ==
  \A m \in Miners : \A i \in 1..Len(block_candidates[m]) :
    LET c == block_candidates[m][i] IN
      /\ blocks[c].height > blocks[current_block[m]].height
      /\ Knows(m, c) /\ known_blocks[m][blocks[c].hash] = c

\* a miner with a received candidate, and a miner that received a block of
\* its tip's height and did not take it as a candidate
C13_Witness ==
  /\ \E m \in Miners : \E i \in 1..Len(block_candidates[m]) :
       blocks[block_candidates[m][i]].miner # m
  /\ \E m \in Miners : \E b \in Mined :
       /\ blocks[b].miner # m /\ Knows(m, b) /\ b # current_block[m]
       /\ blocks[b].height = blocks[current_block[m]].height
       /\ Arrival(m, b) = t /\ pc = "mine"

\* C14: a mine step that finds candidates makes one of the candidates of
\* maximum height the tip and keeps none of the candidates.
C14_EvaluateTakesMaxAndClears ==
  [][\A m \in Miners :
       (pc = "mine" /\ MinerSeq[idx] = m /\ block_candidates[m] # <<>>) =>
         /\ \E i \in 1..Len(block_candidates[m]) :
              current_block'[m] = block_candidates[m][i]
         /\ blocks[current_block'[m]].height = MaxHeight(block_candidates[m])
         /\ \A i \in 1..Len(block_candidates[m]) :
              block_candidates[m][i] \notin Range(block_candidates'[m])]_vars

\* a miner has just evaluated, and dropped, the block it mined in the tick
\* before in favour of a higher received block
C14_Witness ==
  \E m \in Miners : \E c \in Mined :
    /\ blocks[c].miner = m
    /\ \/ blocks[c].time = t - 1 /\ pc = "mine" /\ idx > Index(m)
       \/ blocks[c].time = t - 2 /\ pc = "send" /\ idx = 1
    /\ blocks[current_block[m]].height > blocks[c].height
    /\ block_candidates[m] = <<>>

\* C15: a mine step that finds a block evaluates the candidates first, puts
\* the block on the chosen tip with the next height, into its known_blocks
\* and as its only candidate, counts it once and queues it once with the
\* connection's delay on each of its connections; a mine step that finds
\* none changes only tip and candidates; no mine step changes another miner.
C15_MineEffects ==
  [][\A m \in Miners :
       (pc = "mine" /\ MinerSeq[idx] = m) =>
         LET new == Len(blocks) + 1 IN
           /\ IF block_candidates[m] # <<>>
              THEN current_block'[m] \in Range(candidates_max_height(block_candidates[m]))
              ELSE current_block'[m] = current_block[m]
           /\ rejected_blocks' = rejected_blocks
           /\ \A x \in Miners \ {m} :
                /\ current_block'[x] = current_block[x]
                /\ known_blocks'[x] = known_blocks[x]
                /\ block_candidates'[x] = block_candidates[x]
                /\ blocks_to_send'[x] = blocks_to_send[x]
                /\ blocks_mined'[x] = blocks_mined[x]
           /\ IF blocks' # blocks
              THEN /\ Len(blocks') = new
                   /\ \A b \in 1..Len(blocks) : blocks'[b] = blocks[b]
                   /\ blocks'[new].parent = current_block'[m]
                   /\ blocks'[new].height = blocks[current_block'[m]].height + 1
                   /\ blocks'[new].miner = m /\ blocks'[new].time = t
                   /\ DOMAIN known_blocks'[m] =
                        DOMAIN known_blocks[m] \cup {blocks'[new].hash}
                   /\ blocks'[new].hash \notin DOMAIN known_blocks[m]
                   /\ known_blocks'[m][blocks'[new].hash] = new
                   /\ \A h \in DOMAIN known_blocks[m] :
                        known_blocks'[m][h] = known_blocks[m][h]
                   /\ block_candidates'[m] = <<new>>
                   /\ blocks_mined'[m] = blocks_mined[m] + 1
                   /\ \A k \in DOMAIN connections[m] :
                        blocks_to_send'[m][k] =
                          Append(blocks_to_send[m][k],
                                 [block |-> new, tts |-> connections[m][k].delay])
              ELSE /\ known_blocks'[m] = known_blocks[m]
                   /\ blocks_mined'[m] = blocks_mined[m]
                   /\ blocks_to_send'[m] = blocks_to_send[m]
                   /\ block_candidates'[m] = <<>>]_vars

\* a miner has just mined on a tip it chose among candidates and queued the
\* block with the delay of the slow connection
C15_Witness ==
  \E m \in Miners : \E k \in DOMAIN connections[m] :
    /\ connections[m][k].delay > 0
    /\ pc = "mine" /\ idx > Index(m)
    /\ Len(block_candidates[m]) = 1
    /\ LET b == block_candidates[m][1]
           q == blocks_to_send[m][k]
       IN /\ blocks[b].miner = m /\ blocks[b].time = t
          /\ blocks[b].parent = current_block[m]
          /\ blocks[current_block[m]].miner # m
          /\ current_block[m] # GenesisId
          /\ q # <<>> /\ q[Len(q)] = [block |-> b, tts |-> connections[m][k].delay]


\* the blocks of miner s have been handed over on its k-th connection exactly
\* when the send_messages call of tick (mining tick + lag) has completed
HandedAfter(s, k, lag) ==
  \A b \in Mined :
    blocks[b].miner = s =>
      (b \in Range(handed[s][k]) <=> SentInTick(s, blocks[b].time + lag))

\* C16 as stated: a block queued in the mine phase of tick t on a connection
\* of delay d is received in tick t + d.
C16_DeliveredAfterDelay ==
  \A s \in Miners : \A k \in DOMAIN connections[s] :
    HandedAfter(s, k, connections[s][k].delay)

\* C16 amended: a block queued in the mine phase of tick t on a connection of
\* delay d is received in the send phase of tick t + d + 1.
C16_DeliveredAfterDelayPlusOne ==
  \A s \in Miners : \A k \in DOMAIN connections[s] :
    /\ HandedAfter(s, k, connections[s][k].delay + 1)
    /\ \A b \in Range(handed[s][k]) :
         Knows(connections[s][k].receiver, b)
           \/ Rejects(connections[s][k].receiver, b)

\* a block has come through the connection with the positive delay
C16_Witness ==
  \E s \in Miners : \E k \in DOMAIN connections[s] :
    /\ connections[s][k].delay > 0
    /\ handed[s][k] # <<>>
    /\ t = blocks[handed[s][k][1]].time + connections[s][k].delay + 1

IsMinedBlock(b) ==
  /\ b # GenesisId
  /\ blocks[b].parent # None
  /\ blocks[b].miner \in Miners
  /\ blocks[b].height = blocks[blocks[b].parent].height + 1

\* C17: genesis is never queued, handed to receive_block or rejected, so the
\* assertions of send_block, receive_block and refresh_rejects hold; every
\* queued, rejected or known block other than genesis has a miner and a
\* parent one lower than itself.
C17_OnlyMinedBlocksTravel ==
  /\ \A s \in Miners : \A k \in DOMAIN connections[s] :
       /\ \A i \in 1..Len(blocks_to_send[s][k]) :
            IsMinedBlock(blocks_to_send[s][k][i].block)
       /\ \A i \in 1..Len(handed[s][k]) : IsMinedBlock(handed[s][k][i])
  /\ \A m \in Miners :
       /\ \A i \in 1..Len(rejected_blocks[m]) : IsMinedBlock(rejected_blocks[m][i])
       /\ \A h \in DOMAIN known_blocks[m] :
            known_blocks[m][h] # GenesisId => IsMinedBlock(known_blocks[m][h])
  /\ blocks[GenesisId].parent = None /\ blocks[GenesisId].miner = NoMiner
  /\ blocks[GenesisId].height = 0

\* blocks are queued, have been handed over, are rejected and are known
C17_Witness ==
  /\ \E s \in Miners : \E k \in DOMAIN connections[s] :
       blocks_to_send[s][k] # <<>> /\ handed[s][k] # <<>>
  /\ \E m \in Miners :
       /\ rejected_blocks[m] # <<>>
       /\ \E b \in Mined : blocks[b].miner # m /\ Knows(m, b)

\* C18: a miner's tip height never falls and rises at every evaluation of
\* candidates; a miner's blocks have rising heights and different parents;
\* no two blocks have the same (height, miner, parent hash), or hash.
C18_TipRisesBlocksUnique ==
  /\ [](\A b, c \in 1..Len(blocks) :
          b < c =>
            /\ blocks[b].hash # blocks[c].hash
            /\ <<blocks[b].height, blocks[b].miner, blocks[b].parent>>
                 # <<blocks[c].height, blocks[c].miner, blocks[c].parent>>
            /\ blocks[b].miner = blocks[c].miner =>
                 /\ blocks[b].height < blocks[c].height
                 /\ blocks[b].parent # blocks[c].parent)
  /\ [][\A m \in Miners :
          /\ blocks[current_block'[m]].height >= blocks[current_block[m]].height
          /\ (pc = "mine" /\ MinerSeq[idx] = m /\ block_candidates[m] # <<>>) =>
               blocks[current_block'[m]].height > blocks[current_block[m]].height]_vars

\* a miner has mined twice, the second time not on its own block
C18_Witness ==
  \E b, c \in Mined :
    /\ b < c /\ blocks[b].miner = blocks[c].miner
    /\ blocks[c].parent # b
    /\ blocks[c].height > blocks[b].height + 1

\* the ticks after which a block is known everywhere: the longest delay + 1
Horizon == LongDelay + 1

\* C19: once the send phase of tick (mining tick + 6) is over, a block is in
\* the known_blocks of every miner and in no rejected_blocks.
C19_KnownEverywhereInSixTicks ==
  \A m \in Miners : \A b \in Mined :
    (\A s \in Miners : SentInTick(s, blocks[b].time + Horizon)) =>
      (Knows(m, b) /\ ~Rejects(m, b))

\* a block that was stored as an orphan is known when its six ticks are over
C19_Witness ==
  \E m \in Miners : \E b \in Mined :
    /\ WasOrphan(m, b)
    /\ t = blocks[b].time + Horizon /\ pc = "mine"
    /\ Knows(m, b) /\ ~Rejects(m, b)

====
